---- MODULE Spec2Model ----
(***************************************************************************)
(* Model of crypto/rand/rand_win.c: rand_pool_acquire_entropy (the fixed   *)
(* priority chain of entropy sources and the lazily resolved               *)
(* BCryptGenRandom binding shared by all threads) and the two nonce        *)
(* generators.  Every thread owns its own RAND_POOL; the only shared       *)
(* state is the static s_pfnBCryptGenRandom and the reference count of     *)
(* BCRYPT.dll.  The RAND_POOL operations live in another translation unit; *)
(* they are modelled from section 4.1 of the specification.                *)
(***************************************************************************)
EXTENDS Integers, FiniteSets, Sequences, TLC

(* ---------------- bounds ---------------- *)
NumThreads == 2
TargetBits == 256

(* ---------------- program constants ---------------- *)
STATUS_SUCCESS == 0
EntropyFactor == 1
NonceDataSize == 16
AdditionalDataSize == 16

Threads == 1..NumThreads

(* The threads whose caller also mixes nonces into the pool.  A pool is    *)
(* private to its thread, so one such thread goes through every pool state *)
(* while it races with the others, which acquire into fresh pools.  Its    *)
(* pool has room for a nonce record besides the bytes of the target.       *)
NonceCallers == {1}

(* Values of a PFN_BCryptGenRandom pointer *)
PFN_BCryptGenRandom_NOTSET == "NOTSET"
NULL == "NULL"
BCryptGenRandomAddr == "BCryptGenRandom"
PfnValues == {PFN_BCryptGenRandom_NOTSET, NULL, BCryptGenRandomAddr}

(* Results the OS calls can report *)
NtStatuses == {STATUS_SUCCESS, 1, -1}
BoolResults == {0, 1}

Min(a, b) == IF a <= b THEN a ELSE b

(* ---------------- RAND_POOL (specification section 3 and 4.1) ---------- *)
(* Room a pool has beyond the bytes of its target: one nonce record and a  *)
(* half for the pool of a thread that mixes nonces, none for the others    *)
Slack(t) ==
  IF t \in NonceCallers THEN NonceDataSize + NonceDataSize \div 2 ELSE 0

(* The pools handed to the functions of thread t *)
PoolConfigs(t) ==
  {[capacity |-> (TargetBits + 7) \div 8 + Slack(t),
    target_bits |-> TargetBits,
    max_entropy_bits |-> 8 * ((TargetBits + 7) \div 8)]}

rand_pool_new(cfg) ==
  [bytes_written |-> 0, entropy_bits_credited |-> 0,
   capacity |-> cfg.capacity, target_bits |-> cfg.target_bits,
   max_entropy_bits |-> cfg.max_entropy_bits]

(* bytes_needed(entropy_factor): bytes for the remaining entropy deficit *)
rand_pool_bytes_needed(p, entropy_factor) ==
  LET deficit == IF p.entropy_bits_credited < p.target_bits
                 THEN p.target_bits - p.entropy_bits_credited ELSE 0
  IN (deficit * entropy_factor + 7) \div 8

(* reserve(n): TRUE when a writable region of n bytes is handed out *)
rand_pool_add_begin(p, n) ==
  LET remaining == p.capacity - p.bytes_written
  IN remaining > 0 /\ n <= remaining

(* commit(bytes_actually_valid, entropy_bits_claimed) *)
rand_pool_add_end(p, len, entropy) ==
  LET room == p.max_entropy_bits - p.entropy_bits_credited
      credit == Min(Min(entropy, 8 * len), room)
  IN [p EXCEPT !.bytes_written = @ + len,
               !.entropy_bits_credited = @ + credit]

(* available_entropy() *)
rand_pool_entropy_available(p) == p.entropy_bits_credited

(* add bytes with a claimed entropy: reserve, copy, commit *)
rand_pool_add_ok(p, len, entropy) == rand_pool_add_begin(p, len)

rand_pool_add(p, len, entropy) ==
  IF rand_pool_add_ok(p, len, entropy)
  THEN rand_pool_add_end(p, len, entropy) ELSE p

(* ---------------- state ---------------- *)
VARIABLES
  s_pfnBCryptGenRandom,  \* static binding, line 56
  libRefs,               \* outstanding LoadLibraryExA references to BCRYPT.dll
  pc,                    \* position of each thread
  pool,                  \* the RAND_POOL owned by each thread
  pfnBCryptGenRandom,    \* local, line 57
  pfnBCryptGenRandom2,   \* local, line 82
  hmBCrypt,              \* local, line 81: TRUE when a module handle
  hProvider,             \* local, line 59: TRUE while a provider handle is held
  entropy_available,     \* local, line 63
  ret,                   \* value returned by the last call
  nonce_ret,             \* value returned by the last nonce call
  hist                   \* per-thread observation record (history)

vars == <<s_pfnBCryptGenRandom, libRefs, pc, pool, pfnBCryptGenRandom,
          pfnBCryptGenRandom2, hmBCrypt, hProvider, entropy_available,
          ret, nonce_ret, hist>>

bindVars == <<s_pfnBCryptGenRandom, libRefs, pfnBCryptGenRandom,
              pfnBCryptGenRandom2, hmBCrypt>>

(* What the most recent source of a call did *)
NoSource ==
  [src |-> "none", needed |-> 0, reserved |-> FALSE, oscall |-> FALSE,
   ok |-> FALSE, acquired |-> FALSE, released |-> FALSE,
   committed |-> FALSE, bytes |-> 0, claim |-> 0]

(* History of one thread *)
HistInit ==
  [last |-> NoSource,     \* the most recent source of the current call
   succeeded |-> FALSE,   \* some source of the current call reported success
   loads |-> 0,           \* LoadLibraryExA calls of the thread, ever
   frees |-> 0,           \* FreeLibrary calls in the current call
   primary |-> "none",    \* what the primary source of the current call did
   nonce |-> "none"]      \* what rand_pool_add told the last nonce call

(* Fields of the history that outlive one call *)
CallHist(h) == [HistInit EXCEPT !.loads = h.loads]

Init ==
  /\ s_pfnBCryptGenRandom = PFN_BCryptGenRandom_NOTSET
  /\ libRefs = 0
  /\ pc = [t \in Threads |-> "idle"]
  /\ pool \in {f \in [Threads -> {rand_pool_new(c) :
                                     c \in UNION {PoolConfigs(t) : t \in Threads}}] :
                  \A t \in Threads :
                    \E c \in PoolConfigs(t) : f[t] = rand_pool_new(c)}
  /\ pfnBCryptGenRandom = [t \in Threads |-> PFN_BCryptGenRandom_NOTSET]
  /\ pfnBCryptGenRandom2 = [t \in Threads |-> PFN_BCryptGenRandom_NOTSET]
  /\ hmBCrypt = [t \in Threads |-> FALSE]
  /\ hProvider = [t \in Threads |-> FALSE]
  /\ entropy_available = [t \in Threads |-> 0]
  /\ ret = [t \in Threads |-> 0]
  /\ nonce_ret = [t \in Threads |-> 1]
  /\ hist = [t \in Threads |-> HistInit]

(* ---------------- caller: pool life cycle and nonces ---------------- *)
(* The caller creates a fresh pool for the next acquisition *)
NewPool(t) ==
  /\ pc[t] \in {"idle", "done"}
  /\ \E c \in PoolConfigs(t) : pool' = [pool EXCEPT ![t] = rand_pool_new(c)]
  /\ pc' = [pc EXCEPT ![t] = "idle"]
  /\ ret' = [ret EXCEPT ![t] = 0]
  /\ nonce_ret' = [nonce_ret EXCEPT ![t] = 1]
  /\ hist' = [hist EXCEPT ![t] = CallHist(@)]
  /\ UNCHANGED <<bindVars, hProvider, entropy_available>>

(* Variant: the record is claimed to be worth 8 bits a byte *)
NonceEntropyClaim_Full(size) == 8 * size

(* lines 174 and 194: the last argument of rand_pool_add, the entropy      *)
(* claimed for the record                                                  *)
NonceEntropyClaim(size) == 0

(* Variant: the result of rand_pool_add is dropped and success reported *)
NonceResult_Always(added) == 1

(* lines 174 and 194: the result of rand_pool_add is returned as it is *)
NonceResult(added) == IF added THEN 1 ELSE 0

(* lines 174 and 194: rand_pool_add(pool, &data, sizeof(data), 0) *)
AddNonce(t, size) ==
  LET entropy == NonceEntropyClaim(size)
      added == rand_pool_add_ok(pool[t], size, entropy)
  IN /\ t \in NonceCallers
     /\ pc[t] \in {"idle", "done"}
     /\ pool' = [pool EXCEPT ![t] = rand_pool_add(@, size, entropy)]
     /\ nonce_ret' = [nonce_ret EXCEPT ![t] = NonceResult(added)]
     /\ pc' = [pc EXCEPT ![t] = "idle"]
     /\ ret' = [ret EXCEPT ![t] = 0]
     /\ hist' = [hist EXCEPT ![t] =
           [CallHist(@) EXCEPT !.nonce = IF added THEN "ok" ELSE "short"]]
     /\ UNCHANGED <<bindVars, hProvider, entropy_available>>

(* lines 154-175 *)
rand_pool_add_nonce_data(t) == AddNonce(t, NonceDataSize)

(* lines 177-195 *)
rand_pool_add_additional_data(t) == AddNonce(t, AdditionalDataSize)

(* ---------------- rand_pool_acquire_entropy ---------------- *)
(* Leave the function with value v and history h: the locals go out of     *)
(* scope.  hProvider is set by the caller of Return.                       *)
Return(t, v, h) ==
  /\ pc' = [pc EXCEPT ![t] = "done"]
  /\ ret' = [ret EXCEPT ![t] = v]
  /\ pfnBCryptGenRandom' = [pfnBCryptGenRandom EXCEPT ![t] = PFN_BCryptGenRandom_NOTSET]
  /\ entropy_available' = [entropy_available EXCEPT ![t] = 0]
  /\ hist' = [hist EXCEPT ![t] = h]
  /\ nonce_ret' = [nonce_ret EXCEPT ![t] = 1]
  /\ UNCHANGED <<s_pfnBCryptGenRandom, libRefs, pfnBCryptGenRandom2, hmBCrypt>>

(* Go on to position q with entropy_available = e and history h *)
Goto(t, q, e, h) ==
  /\ pc' = [pc EXCEPT ![t] = q]
  /\ entropy_available' = [entropy_available EXCEPT ![t] = e]
  /\ hist' = [hist EXCEPT ![t] = h]
  /\ nonce_ret' = [nonce_ret EXCEPT ![t] = 1]
  /\ UNCHANGED <<bindVars, ret>>

(* Variants of the early return: never taken, always taken *)
ShortCircuit_Never(e) == FALSE
ShortCircuit_Always(e) == e >= 0

(* lines 108-109, 128-129, 147-148: the early return *)
ShortCircuit(e) == e > 0

(* A hardware source (timing jitter, RNG instruction): compiled in and      *)
(* working it fills the deficit, otherwise it contributes nothing           *)
HardwareSource(p, works) ==
  LET n == rand_pool_bytes_needed(p, EntropyFactor)
  IN IF works /\ rand_pool_add_begin(p, n)
     THEN rand_pool_add_end(p, n, 8 * n) ELSE p

Hardware(t, h0, src, next) ==
  \E works \in BOOLEAN :
    LET p == HardwareSource(pool[t], works)
        e == rand_pool_entropy_available(p)
        h == [h0 EXCEPT !.last = [NoSource EXCEPT !.src = src],
                        !.succeeded = (e > 0)]
    IN /\ pool' = [pool EXCEPT ![t] = p]
       /\ UNCHANGED hProvider
       /\ IF ShortCircuit(e) THEN Return(t, e, h)
          ELSE Goto(t, next, e, h0)

(* lines 48-70: entry with a pool that holds no credited entropy yet,      *)
(* entropy_available = 0, then the timing-jitter source                    *)
SeedTSC(t) ==
  /\ pc[t] = "idle"
  /\ pool[t].entropy_bits_credited = 0
  /\ Hardware(t, CallHist(hist[t]), "tsc", "cpu")

(* lines 72-76 *)
SeedCPU(t) == pc[t] = "cpu" /\ Hardware(t, hist[t], "cpu", "read")

(* ---------------- the lazy binding, lines 79-95 ---------------- *)
(* Variant: a cached NULL is resolved again *)
NeedsResolve_RetryNull(p) == p # BCryptGenRandomAddr

(* line 80: the binding still has to be resolved *)
NeedsResolve(p) == p = PFN_BCryptGenRandom_NOTSET

(* Variant: a plain store instead of the compare-and-swap *)
InterlockedCompareExchangePointer_Store(dest, exchange, comparand) == exchange

(* lines 79 and 90: the value InterlockedCompareExchangePointer leaves in  *)
(* the destination; the call returns the destination's old value           *)
InterlockedCompareExchangePointer(dest, exchange, comparand) ==
  IF dest = comparand THEN exchange ELSE dest

(* Variant: the loser keeps its module handle *)
FreesLibrary_Never(hm) == FALSE

(* line 92: the loser frees a module handle it holds *)
FreesLibrary(hm) == hm

(* Variant: the loser keeps the pointer it looked up itself *)
AdoptedPointer_Own(own, other) == own

(* line 93: the loser adopts the winner's pointer *)
AdoptedPointer(own, other) == other

(* line 79-80: the exchange of NULL for NULL reads the static atomically, *)
(* then the test for NOTSET                                                *)
ReadBinding(t) ==
  /\ pc[t] = "read"
  /\ s_pfnBCryptGenRandom' =
        InterlockedCompareExchangePointer(s_pfnBCryptGenRandom, NULL, NULL)
  /\ pfnBCryptGenRandom' = [pfnBCryptGenRandom EXCEPT ![t] = s_pfnBCryptGenRandom]
  /\ pc' = [pc EXCEPT ![t] =
        IF NeedsResolve(s_pfnBCryptGenRandom) THEN "load" ELSE "bcrypt"]
  /\ UNCHANGED <<libRefs, pfnBCryptGenRandom2, hmBCrypt, pool, hProvider,
                 entropy_available, ret, nonce_ret, hist>>

(* lines 84-88: LoadLibraryExA, then GetProcAddress when the load worked *)
LoadLibrary(t) ==
  /\ pc[t] = "load"
  /\ \E loaded \in BOOLEAN, found \in BOOLEAN :
       /\ (~loaded => ~found)
       /\ hmBCrypt' = [hmBCrypt EXCEPT ![t] = loaded]
       /\ libRefs' = IF loaded THEN libRefs + 1 ELSE libRefs
       /\ pfnBCryptGenRandom' = [pfnBCryptGenRandom EXCEPT ![t] =
             IF loaded /\ found THEN BCryptGenRandomAddr ELSE NULL]
       /\ hist' = [hist EXCEPT ![t].loads = @ + 1]
  /\ pc' = [pc EXCEPT ![t] = "cas"]
  /\ UNCHANGED <<s_pfnBCryptGenRandom, pfnBCryptGenRandom2, pool,
                 hProvider, entropy_available, ret, nonce_ret>>

(* Variant: a thread that lost the exchange starts over at the read *)
AfterExchange_Retry(won) == IF won THEN "bcrypt" ELSE "read"

(* lines 91-95: the winner leaves the block, the loser cleans up once *)
AfterExchange(won) == IF won THEN "bcrypt" ELSE "free"

(* lines 90-91: the exchange and the test of its result; a winner leaves  *)
(* the block at line 95                                                    *)
CompareExchange(t) ==
  LET old == s_pfnBCryptGenRandom
      won == (old = PFN_BCryptGenRandom_NOTSET)
  IN /\ pc[t] = "cas"
     /\ s_pfnBCryptGenRandom' =
           InterlockedCompareExchangePointer(old, pfnBCryptGenRandom[t],
                                             PFN_BCryptGenRandom_NOTSET)
     /\ pfnBCryptGenRandom2' = [pfnBCryptGenRandom2 EXCEPT ![t] =
           IF won THEN PFN_BCryptGenRandom_NOTSET ELSE old]
     /\ hmBCrypt' = [hmBCrypt EXCEPT ![t] = IF won THEN FALSE ELSE @]
     /\ pc' = [pc EXCEPT ![t] = AfterExchange(won)]
     /\ UNCHANGED <<libRefs, pfnBCryptGenRandom, pool, hProvider, hist,
                    entropy_available, ret, nonce_ret>>

(* lines 92-95: the loser frees its module handle and adopts the winner *)
FreeLoser(t) ==
  /\ pc[t] = "free"
  /\ libRefs' = IF FreesLibrary(hmBCrypt[t]) THEN libRefs - 1 ELSE libRefs
  /\ pfnBCryptGenRandom' = [pfnBCryptGenRandom EXCEPT ![t] =
        AdoptedPointer(@, pfnBCryptGenRandom2[t])]
  /\ pfnBCryptGenRandom2' = [pfnBCryptGenRandom2 EXCEPT ![t] = PFN_BCryptGenRandom_NOTSET]
  /\ hmBCrypt' = [hmBCrypt EXCEPT ![t] = FALSE]
  /\ pc' = [pc EXCEPT ![t] = "bcrypt"]
  /\ hist' = [hist EXCEPT ![t].frees =
                 IF FreesLibrary(hmBCrypt[t]) THEN @ + 1 ELSE @]
  /\ UNCHANGED <<s_pfnBCryptGenRandom, pool, hProvider, entropy_available,
                 ret, nonce_ret>>

(* ---------------- the OS sources ---------------- *)
(* Variant: the bytes asked for are committed whatever the status *)
BytesOnStatus_Always(status, needed) == needed

(* Variant: every non-negative status counts as success *)
BytesOnStatus_NonNegative(status, needed) == IF status >= 0 THEN needed ELSE 0

(* lines 101-103: only the exact success status counts *)
BytesOnStatus(status, needed) == IF status = STATUS_SUCCESS THEN needed ELSE 0

(* Variant: the result of CryptGenRandom is ignored *)
BytesOnGenRandom_Ignored(result, needed) == needed

(* lines 119-120 and 139-140: CryptGenRandom(...) != 0 *)
BytesOnGenRandom(result, needed) == IF result # 0 THEN needed ELSE 0

(* Variant: the claim is the number of bytes, not of bits *)
EntropyClaim_Bytes(b, needed) == b

(* Variant: the claim is made for the bytes asked for *)
EntropyClaim_Needed(b, needed) == 8 * needed

(* lines 105, 125, 144: the entropy claimed for a commit of b bytes *)
EntropyClaim(b, needed) == 8 * b

(* Variant: the context is released only after a successful fill *)
ReleasesContext_OnSuccess(acquired, result) == acquired /\ result # 0

(* lines 122 and 142: CryptReleaseContext sits inside the branch of a      *)
(* successful CryptAcquireContextW and does not look at CryptGenRandom     *)
ReleasesContext(acquired, result) == acquired

(* Variant: the provider is called whatever the reservation returned *)
Attempts_Always(buffer) == TRUE

(* lines 99, 114, 133: if (buffer != NULL) guards the OS call and the     *)
(* commit                                                                  *)
Attempts(buffer) == buffer

(* Variant: the length of the pool is read instead of its entropy *)
EntropyAfterCommit_Length(p) == p.bytes_written

(* lines 106, 126, 145: entropy_available is re-read after the commit *)
EntropyAfterCommit(p) == rand_pool_entropy_available(p)

(* What the history keeps of a primary source that made the record r *)
PrimaryOutcome(r) ==
  IF ~r.oscall THEN "noreserve" ELSE IF r.ok THEN "ok" ELSE "failed"

(* lines 105-109, 125-129, 144-150: commit when a buffer was reserved,     *)
(* re-read the pool, then the early return, the next source or line 150    *)
Finish(t, r, next) ==
  LET claim == EntropyClaim(r.bytes, r.needed)
      p == IF r.oscall
           THEN rand_pool_add_end(pool[t], r.bytes, claim) ELSE pool[t]
      e == IF r.oscall
           THEN EntropyAfterCommit(p) ELSE entropy_available[t]
      h == [hist[t] EXCEPT !.last = [r EXCEPT !.committed = r.oscall,
                                              !.claim = IF r.oscall THEN claim ELSE 0],
                           !.succeeded = @ \/ r.ok,
                           !.primary = IF r.src = "bcrypt"
                                       THEN PrimaryOutcome(r) ELSE @]
  IN /\ pool' = [pool EXCEPT ![t] = p]
     /\ hProvider' = [hProvider EXCEPT ![t] =
           (@ \/ r.acquired) /\ ~r.released]
     /\ IF ShortCircuit(e) THEN Return(t, e, h)
        ELSE IF next = "final" THEN Return(t, rand_pool_entropy_available(p), h)
        ELSE Goto(t, next, e, h)

(* Variant: only the unset marker counts as unusable *)
Bound_NotUnset(pfn) == pfn # PFN_BCryptGenRandom_NOTSET

(* line 96: the primary source is used only through a non-NULL pointer *)
Bound(pfn) == pfn # NULL

(* lines 96-110: the primary source through the bound function *)
BCryptSource(t) ==
  /\ pc[t] = "bcrypt"
  /\ IF Bound(pfnBCryptGenRandom[t])
     THEN \E status \in NtStatuses :
            LET n == rand_pool_bytes_needed(pool[t], EntropyFactor)
                b == rand_pool_add_begin(pool[t], n)
                att == Attempts(b)
            IN Finish(t, [NoSource EXCEPT
                            !.src = "bcrypt", !.needed = n, !.reserved = b,
                            !.oscall = att,
                            !.ok = att /\ status = STATUS_SUCCESS,
                            !.bytes = IF att THEN BytesOnStatus(status, n) ELSE 0],
                      "a")
     ELSE /\ Goto(t, "a", entropy_available[t],
                  [hist[t] EXCEPT !.primary = "unavailable"])
          /\ UNCHANGED <<pool, hProvider>>

(* lines 112-129 and 131-150: a legacy CryptoAPI provider *)
LegacySource(t, src, next) ==
  \E acquire \in BoolResults :
  \E result \in IF acquire # 0 THEN BoolResults ELSE {0} :
    LET n == rand_pool_bytes_needed(pool[t], EntropyFactor)
        b == rand_pool_add_begin(pool[t], n)
        att == Attempts(b)
        acquired == att /\ acquire # 0
    IN Finish(t, [NoSource EXCEPT
                    !.src = src, !.needed = n, !.reserved = b, !.oscall = att,
                    !.acquired = acquired,
                    !.ok = acquired /\ result # 0,
                    !.released = ReleasesContext(acquired, result),
                    !.bytes = IF acquired THEN BytesOnGenRandom(result, n) ELSE 0],
              next)

(* lines 112-129: provider PROV_RSA_FULL *)
LegacyA(t) == pc[t] = "a" /\ LegacySource(t, "a", "b")

(* lines 131-150: provider PROV_INTEL_SEC, then the final return *)
LegacyB(t) == pc[t] = "b" /\ LegacySource(t, "b", "final")

rand_pool_acquire_entropy(t) ==
  \/ SeedTSC(t) \/ SeedCPU(t)
  \/ ReadBinding(t) \/ LoadLibrary(t) \/ CompareExchange(t) \/ FreeLoser(t)
  \/ BCryptSource(t) \/ LegacyA(t) \/ LegacyB(t)

Next ==
  \E t \in Threads :
    \/ NewPool(t)
    \/ rand_pool_add_nonce_data(t)
    \/ rand_pool_add_additional_data(t)
    \/ rand_pool_acquire_entropy(t)

Spec == Init /\ [][Next]_vars

(* The steps of thread t inside a call it has entered *)
InCall(t) ==
  \/ SeedCPU(t)
  \/ ReadBinding(t) \/ LoadLibrary(t) \/ CompareExchange(t) \/ FreeLoser(t)
  \/ BCryptSource(t) \/ LegacyA(t) \/ LegacyB(t)

(* Every OS call returns and the scheduler lets every thread run: a thread *)
(* inside a call eventually takes its next step.  Nothing makes a caller   *)
(* start a call.                                                           *)
FairSpec == Spec /\ \A t \in Threads : WF_vars(InCall(t))

(* ======================= properties ======================= *)
Running == {"cpu", "read", "load", "cas", "free", "bcrypt", "a", "b"}
Resolving == {"load", "cas", "free"}
OSSources == {"bcrypt", "a", "b"}

available_entropy(t) == rand_pool_entropy_available(pool[t])

PoolValid(p) ==
  /\ p.bytes_written <= p.capacity
  /\ p.entropy_bits_credited <= 8 * p.bytes_written

(* C1: no over-crediting.  In every reachable state the available entropy *)
(* of every pool is at most 8 * bytes_written, and every commit made by an *)
(* OS source claims exactly 8 bits for each byte it commits.               *)
C1_NoOverCrediting ==
  \A t \in Threads :
    /\ available_entropy(t) <= 8 * pool[t].bytes_written
    /\ hist[t].last.committed =>
          hist[t].last.claim = 8 * hist[t].last.bytes

C1_Witness ==
  \E t \in Threads :
    /\ hist[t].last.committed /\ hist[t].last.bytes > 0
    /\ available_entropy(t) = 8 * pool[t].bytes_written
    /\ available_entropy(t) > 0

(* C2: short-circuit.  While a lower-priority source can still be invoked *)
(* the pool holds no available entropy, and the step that makes the        *)
(* available entropy positive is the step that returns that value.         *)
C2_ShortCircuit ==
  /\ [](\A t \in Threads : pc[t] \in Running => available_entropy(t) = 0)
  /\ [][\A t \in Threads :
          (available_entropy(t) = 0
             /\ rand_pool_entropy_available(pool'[t]) > 0)
          => /\ pc'[t] = "done"
             /\ ret'[t] = rand_pool_entropy_available(pool'[t])]_vars

C2_Witness ==
  \E t \in Threads :
    /\ pc[t] = "done" /\ ret[t] > 0
    /\ hist[t].last.src = "bcrypt"

(* C3: fall-through.  A source that leaves the available entropy at 0 is  *)
(* followed by the next source of the priority order, also when the        *)
(* primary source could not reserve, and the legacy sources make their     *)
(* attempt (bytes_needed and the reservation) whenever they are reached.   *)
C3_FallThrough ==
  [][\A t \in Threads :
       LET nothing == rand_pool_entropy_available(pool'[t]) = 0
           moved == pc'[t] # pc[t]
       IN /\ (pc[t] = "idle" /\ moved /\ nothing) => pc'[t] = "cpu"
          /\ (pc[t] = "cpu" /\ moved /\ nothing) => pc'[t] = "read"
          /\ (pc[t] = "bcrypt" /\ moved /\ nothing) => pc'[t] = "a"
          /\ (pc[t] = "a" /\ moved /\ nothing) => pc'[t] = "b"
          /\ (pc[t] = "a" /\ moved) => hist'[t].last.src = "a"
          /\ (pc[t] = "b" /\ moved) => hist'[t].last.src = "b"]_vars

C3_Witness ==
  \E t \in Threads :
    /\ pc[t] = "b" /\ hist[t].last.src = "a"
    /\ ~hist[t].last.reserved
    /\ pfnBCryptGenRandom[t] = BCryptGenRandomAddr

(* C4: total exhaustion.  A call in which no source reported success      *)
(* returns 0 and leaves the pool valid.                                    *)
C4_TotalExhaustion ==
  \A t \in Threads :
    (pc[t] = "done" /\ ~hist[t].succeeded)
      => (ret[t] = 0 /\ available_entropy(t) = 0 /\ PoolValid(pool[t]))

C4_Witness ==
  \E t \in Threads :
    /\ pc[t] = "done" /\ ~hist[t].succeeded /\ ret[t] = 0
    /\ hist[t].last.src = "b" /\ hist[t].last.oscall
    /\ pool[t].bytes_written = 0

(* C5: binding convergence.  Every thread that has left the resolution    *)
(* step uses the value of the shared binding, so all such threads agree.   *)
C5_Convergence ==
  \A t \in Threads :
    pc[t] \in OSSources =>
      /\ s_pfnBCryptGenRandom # PFN_BCryptGenRandom_NOTSET
      /\ pfnBCryptGenRandom[t] = s_pfnBCryptGenRandom
      /\ \A u \in Threads :
           pc[u] \in OSSources => pfnBCryptGenRandom[u] = pfnBCryptGenRandom[t]

C5_Witness ==
  \E t, u \in Threads :
    /\ t # u /\ pc[t] = "bcrypt" /\ pc[u] = "bcrypt"
    /\ hist[t].loads = 1 /\ hist[u].loads = 1 /\ hist[u].frees = 1
    /\ s_pfnBCryptGenRandom = NULL /\ libRefs = 0

(* C6: the loser cleans up.  A thread loads the library at most once, a   *)
(* thread frees only what it loaded, and the references outstanding are    *)
(* at most one plus those of threads still inside the resolution step.     *)
C6_LoserCleansUp ==
  /\ \A t \in Threads : hist[t].loads <= 1 /\ hist[t].frees <= hist[t].loads
  /\ libRefs >= 0
  /\ libRefs <= 1 + Cardinality({t \in Threads :
                                   pc[t] \in Resolving /\ hmBCrypt[t]})

C6_Witness ==
  /\ \A t \in Threads : pc[t] \notin Resolving /\ hist[t].loads = 1
  /\ \E t \in Threads : hist[t].frees = 1
  /\ libRefs = 1

(* C7: cached result.  A library load is made only by a thread whose read *)
(* at line 79 returned NOTSET, and a read that finds the binding resolved  *)
(* (bound or NULL) goes straight on with that value.                       *)
C7_CachedResult ==
  [][\A t \in Threads :
       /\ (hist'[t].loads # hist[t].loads \/ libRefs' > libRefs)
            => \E u \in Threads :
                 pc[u] = "load"
                   /\ pfnBCryptGenRandom[u] = PFN_BCryptGenRandom_NOTSET
       /\ (pc[t] = "read" /\ pc'[t] # "read"
             /\ s_pfnBCryptGenRandom # PFN_BCryptGenRandom_NOTSET)
            => /\ pc'[t] = "bcrypt"
               /\ pfnBCryptGenRandom'[t] = s_pfnBCryptGenRandom
               /\ hist'[t].loads = hist[t].loads
               /\ libRefs' = libRefs]_vars

C7_Witness ==
  \E t \in Threads :
    /\ pc[t] = "a" /\ hist[t].loads = 0
    /\ s_pfnBCryptGenRandom = NULL

(* C8: single assignment.  The shared binding changes only from NOTSET to *)
(* NULL or to the function's address.                                      *)
C8_SingleAssignment ==
  [][s_pfnBCryptGenRandom' # s_pfnBCryptGenRandom
       => /\ s_pfnBCryptGenRandom = PFN_BCryptGenRandom_NOTSET
          /\ s_pfnBCryptGenRandom' \in {NULL, BCryptGenRandomAddr}]_vars

C8_Witness ==
  \E t \in Threads :
    /\ pc[t] = "free"
    /\ pfnBCryptGenRandom[t] # s_pfnBCryptGenRandom
    /\ s_pfnBCryptGenRandom = NULL

(* C9: no partial credit.  A commit of an OS source carries either all the *)
(* bytes asked for, and then only after the OS call reported exact         *)
(* success, or 0 bytes, and the claim is 8 bits for each committed byte.   *)
C9_NoPartialCredit ==
  \A t \in Threads :
    LET r == hist[t].last
    IN (r.src \in OSSources /\ r.committed) =>
         /\ r.bytes \in {0, r.needed}
         /\ r.ok => r.bytes = r.needed
         /\ ~r.ok => r.bytes = 0
         /\ r.claim = 8 * r.bytes

C9_Witness ==
  \E t \in Threads :
    LET r == hist[t].last
    IN r.src = "a" /\ r.committed /\ r.acquired /\ ~r.ok /\ r.bytes = 0
         /\ r.needed > 0

(* C10: provider handles are balanced.  No provider handle is held when a *)
(* legacy source is left, a handle is released exactly when it was         *)
(* acquired, and nothing is held at a return.                              *)
C10_HandlesBalanced ==
  \A t \in Threads :
    /\ ~hProvider[t]
    /\ hist[t].last.released <=> hist[t].last.acquired

C10_Witness ==
  \E t \in Threads :
    LET r == hist[t].last
    IN pc[t] = "done" /\ r.src = "b" /\ r.acquired /\ r.released /\ ~r.ok
         /\ ~hProvider[t]

(* Bytes a pool without credited entropy asks a source for *)
BytesForTarget == (TargetBits + 7) \div 8

(* C11: end-to-end, primary success.  When the primary OS source of a call *)
(* succeeds, the call returns there: the request was for the bytes of the  *)
(* target, the value returned is 8 bits for each of them, 256 for a target *)
(* of 256 bits, and no legacy provider runs in that call.                  *)
C11_PrimarySuccess ==
  \A t \in Threads :
    LET r == hist[t].last
    IN (hist[t].primary = "ok" \/ (r.src = "bcrypt" /\ r.ok)) =>
         /\ pc[t] = "done"
         /\ r.src = "bcrypt" /\ r.ok
         /\ r.needed = BytesForTarget /\ r.bytes = r.needed
         /\ ret[t] = 8 * r.needed
         /\ (pool[t].target_bits = 256 => ret[t] = 256)

C11_Witness ==
  \E t \in Threads :
    /\ pc[t] = "done" /\ hist[t].primary = "ok"
    /\ hist[t].last.src = "bcrypt"
    /\ ret[t] = 8 * BytesForTarget
    /\ pool[t].bytes_written = BytesForTarget

(* C12: end-to-end, fallback success.  When legacy variant A succeeds, the *)
(* primary source of that call was unavailable or its call was rejected,   *)
(* variant A asked for the bytes of the target all the same, the call      *)
(* returns 8 bits for each of them and variant B does not run.             *)
C12_FallbackSuccess ==
  \A t \in Threads :
    LET r == hist[t].last
    IN (r.src = "a" /\ r.ok) =>
         /\ pc[t] = "done"
         /\ hist[t].primary \in {"unavailable", "failed"}
         /\ r.needed = BytesForTarget /\ r.bytes = r.needed
         /\ ret[t] = 8 * r.needed
         /\ ret[t] = available_entropy(t)

C12_Witness ==
  \E t \in Threads :
    /\ pc[t] = "done" /\ hist[t].primary = "failed"
    /\ hist[t].last.src = "a" /\ hist[t].last.ok
    /\ ret[t] = 8 * BytesForTarget

(* C13: nonces carry no entropy.  Whatever the pool holds and whatever     *)
(* acquisitions came before, a nonce call leaves the credited entropy and  *)
(* the available entropy of the pool as they were; a record that was added *)
(* only makes the pool longer by its size.                                 *)
C13_NoncesCarryNoEntropy ==
  [][\A t \in Threads :
       hist'[t].nonce # "none" =>
         /\ pool'[t].entropy_bits_credited = pool[t].entropy_bits_credited
         /\ rand_pool_entropy_available(pool'[t]) = available_entropy(t)
         /\ pool'[t].bytes_written \in
               {pool[t].bytes_written,
                pool[t].bytes_written + NonceDataSize,
                pool[t].bytes_written + AdditionalDataSize}]_vars

C13_Witness ==
  \E t \in Threads :
    /\ pc[t] = "idle" /\ hist[t].nonce = "ok" /\ nonce_ret[t] = 1
    /\ available_entropy(t) = 8 * BytesForTarget
    /\ pool[t].bytes_written = BytesForTarget + NonceDataSize

(* C14 as claimed: every nonce call reports success *)
C14_AlwaysSucceeds ==
  \A t \in Threads : hist[t].nonce # "none" => nonce_ret[t] = 1

(* C14, amended: a nonce call reports what rand_pool_add reports.  It      *)
(* succeeds when the record was added, and it fails, leaving a pool whose  *)
(* remaining capacity is smaller than the record, when it was not.         *)
C14_ReportsAdd ==
  \A t \in Threads :
    /\ hist[t].nonce = "ok" =>
          /\ nonce_ret[t] = 1
          /\ pool[t].bytes_written >= NonceDataSize
          /\ pool[t].bytes_written <= pool[t].capacity
    /\ hist[t].nonce = "short" =>
          /\ nonce_ret[t] = 0
          /\ pool[t].capacity - pool[t].bytes_written < NonceDataSize

C14_Witness ==
  \E t \in Threads :
    /\ hist[t].nonce = "short" /\ nonce_ret[t] = 0
    /\ pool[t].capacity - pool[t].bytes_written < NonceDataSize
    /\ pool[t].capacity - pool[t].bytes_written > 0

(* Bytes the pool of thread t can still take *)
remaining(t) == pool[t].capacity - pool[t].bytes_written

(* The step is one of thread t leaving the OS source at its position *)
SourceStep(t) == pc[t] \in OSSources /\ pc'[t] # pc[t]

(* C15: a failed reservation is inert.  A source that asks for more bytes  *)
(* than the pool has left gets no buffer; the step leaves bytes_written    *)
(* and the credited entropy as they were, makes no OS call, acquires no    *)
(* provider and commits nothing.                                           *)
C15_FailedReservationInert ==
  [][\A t \in Threads :
       (SourceStep(t) /\ hist'[t].last.src = pc[t]
          /\ rand_pool_bytes_needed(pool[t], EntropyFactor) > remaining(t))
       => /\ ~hist'[t].last.reserved
          /\ ~hist'[t].last.oscall /\ ~hist'[t].last.acquired
          /\ ~hist'[t].last.committed /\ hist'[t].last.bytes = 0
          /\ pool'[t] = pool[t]]_vars

C15_Witness ==
  \E t \in Threads :
    LET r == hist[t].last
    IN /\ pc[t] = "a" /\ r.src = "bcrypt" /\ hist[t].primary = "noreserve"
       /\ ~r.reserved /\ ~r.oscall /\ r.needed > remaining(t)
       /\ remaining(t) > 0

(* C16: a failed source does not change the accounting.  A source that     *)
(* reserved and did not succeed commits 0 bytes, and the step leaves the   *)
(* available entropy and bytes_written as they were; over the steps of a   *)
(* call the credited entropy never goes down.                              *)
C16_FailureKeepsAccounting ==
  [][\A t \in Threads :
       /\ (SourceStep(t) /\ hist'[t].last.src = pc[t]
             /\ hist'[t].last.reserved /\ ~hist'[t].last.ok)
          => /\ hist'[t].last.committed /\ hist'[t].last.bytes = 0
             /\ rand_pool_entropy_available(pool'[t]) = available_entropy(t)
             /\ pool'[t].bytes_written = pool[t].bytes_written
       /\ (pc'[t] # pc[t] /\ pc'[t] # "idle")
          => pool'[t].entropy_bits_credited >= pool[t].entropy_bits_credited]_vars

C16_Witness ==
  \E t \in Threads :
    LET r == hist[t].last
    IN /\ pc[t] = "a" /\ r.src = "bcrypt" /\ hist[t].primary = "failed"
       /\ r.reserved /\ r.committed /\ r.bytes = 0 /\ r.needed > 0
       /\ pool[t].bytes_written = NonceDataSize
       /\ available_entropy(t) = 0

(* C17: the result is the pool's own figure.  After every return the value *)
(* returned is the available entropy of the pool, also when the last       *)
(* source could not reserve and entropy_available was not re-read.         *)
C17_ResultIsPoolFigure ==
  \A t \in Threads :
    pc[t] = "done" => ret[t] = available_entropy(t)

C17_Witness ==
  \E t \in Threads :
    /\ pc[t] = "done" /\ ret[t] = available_entropy(t)
    /\ hist[t].last.src = "b" /\ ~hist[t].last.reserved
    /\ hist[t].primary = "noreserve"
    /\ pool[t].bytes_written > 0

(* C18: an unavailable binding is skipped silently.  With a NULL pointer   *)
(* the primary source makes no reservation and no commit, the step leaves  *)
(* the pool as it was, and the thread goes on to legacy variant A.         *)
C18_UnavailableSkipped ==
  [][\A t \in Threads :
       (pc[t] = "bcrypt" /\ pc'[t] # pc[t] /\ pfnBCryptGenRandom[t] = NULL)
       => /\ pool'[t] = pool[t]
          /\ hist'[t].last = hist[t].last
          /\ hist'[t].primary = "unavailable"
          /\ pc'[t] = "a"]_vars

C18_Witness ==
  \E t \in Threads :
    /\ pc[t] = "a" /\ hist[t].primary = "unavailable"
    /\ pfnBCryptGenRandom[t] = NULL /\ s_pfnBCryptGenRandom = NULL
    /\ hist[t].last.src = "none"
    /\ pool[t].bytes_written = 0 /\ available_entropy(t) = 0

(* C19 as claimed: once no thread is resolving, a library handle is held   *)
(* only if the binding is bound to the function                            *)
C19_HandleOnlyIfBound ==
  (\A t \in Threads : pc[t] \notin Resolving) =>
     (libRefs > 0 => s_pfnBCryptGenRandom = BCryptGenRandomAddr)

(* Order of the positions of a call *)
Rank(q) ==
  CASE q = "idle" -> 0 [] q = "cpu" -> 1 [] q = "read" -> 2
    [] q = "load" -> 3 [] q = "cas" -> 4 [] q = "free" -> 5
    [] q = "bcrypt" -> 6 [] q = "a" -> 7 [] q = "b" -> 8 [] q = "done" -> 9

(* C20: resolution is non-blocking.  Under fairness for each thread every  *)
(* call that was entered returns; a thread inside a call can always take   *)
(* its next step whatever the other threads are doing; and a step of a     *)
(* call only moves forward, so that a call makes at most one load and at   *)
(* most one exchange and never goes back to try again.                     *)
C20_NonBlocking ==
  /\ \A t \in Threads : (pc[t] \in Running) ~> (pc[t] = "done")
  /\ [](\A t \in Threads : pc[t] \in Running => ENABLED InCall(t))
  /\ [](\A t \in Threads : hist[t].loads <= 1)
  /\ [][\A t \in Threads :
          (pc[t] \in Running /\ pc'[t] # pc[t])
            => Rank(pc'[t]) > Rank(pc[t])]_vars

C20_Witness ==
  \E t, u \in Threads :
    /\ t # u /\ pc[t] = "done" /\ pc[u] = "done"
    /\ hist[t].loads = 1 /\ hist[u].loads = 1
    /\ hist[t].frees = 0 /\ hist[u].frees = 1
    /\ s_pfnBCryptGenRandom = BCryptGenRandomAddr /\ libRefs = 1

====
